---- MODULE Spec2Model ----
(***************************************************************************)
(* Model of the cricket cover-drive analyser: the joint resolver           *)
(* (src/src/pose_estimator.py), the metric extractor and per-frame         *)
(* feedback (src/src/biomechanics.py), the category scorer, overall scorer *)
(* and grader (src/src/evaluator.py) and the frame loop (src/main.py).     *)
(*                                                                         *)
(* Numbers.  Python floats are modelled by exact arithmetic:               *)
(*   - a metric value is None, NaN or Num(v) with v an integer (degrees or *)
(*     pixels);                                                            *)
(*   - a mean, a fraction or a variance is an exact rational Rat(num, den) *)
(*     and is compared with its threshold by cross-multiplication;         *)
(*   - a score is an integer number of hundredths (5.0 is 500), a weight   *)
(*     an integer number of hundredths (0.2 is 20).                        *)
(***************************************************************************)
EXTENDS Integers, Sequences, FiniteSets, TLC

VARIABLES
    pc,               \* where the modelled run stands
    landmarks,        \* pose landmarks of the current frame (joint -> landmark)
    frame_metrics,    \* FrameMetrics of the current frame
    metrics_history,  \* main.py: metrics_history
    category_scores,  \* evaluator: category scores (argument or result)
    overall_score,    \* argument of _determine_grade / result of calculate_overall_score
    weights,          \* config['scoring'] of the run
    grade,            \* result of _determine_grade
    computed,         \* main.py:100-107: the four metric values as returned
    video,            \* which frames the video source yields
    frame_count,      \* main.py: frame_count
    frame_feedback,   \* main.py:119: per-frame feedback of evaluate_metrics
    feedback,         \* main.py:161: result of generate_feedback
    evaluation,       \* the documents written to evaluation_path, in order
    key,              \* main.py:145: the key cv2.waitKey reported last
    pose_data         \* main.py:84: result of extract_keypoints for the current frame

vars == <<pc, landmarks, frame_metrics, metrics_history, category_scores,
          overall_score, weights, grade, computed, video,
          frame_count, frame_feedback, feedback, evaluation, key, pose_data>>

\* The variables that only the frame loop of analyze_video and the feedback
\* functions change.
run_vars == <<frame_count, frame_feedback, feedback, evaluation, key, pose_data>>

----------------------------------------------------------------------------
(* Optional float values                                                   *)

None == [tag |-> "None"]

NaN == [tag |-> "nan"]

Num(v) == [tag |-> "num", val |-> v]

IsNum(x) == x.tag = "num"

\* Python truthiness of an Optional[float]: None and 0 are falsy, NaN is truthy.
Truthy(x) == x.tag = "nan" \/ (x.tag = "num" /\ x.val # 0)

Rat(n, d) == [num |-> n, den |-> d]

\* r <= k/q and r >= k/q for a rational r with positive denominator, q > 0.
RatLeq(r, k, q) == r.num * q <= k * r.den

RatGeq(r, k, q) == r.num * q >= k * r.den

Abs(x) == IF x < 0 THEN -x ELSE x

RECURSIVE SeqSum(_)
SeqSum(s) == IF s = <<>> THEN 0 ELSE Head(s) + SeqSum(Tail(s))

\* Python s[start:] (a negative start counts from the end, clamped at 0).
PySliceFrom(s, start) ==
    LET n == Len(s)
        i == IF start < 0 THEN (IF n + start < 0 THEN 0 ELSE n + start)
             ELSE (IF start > n THEN n ELSE start)
    IN  SubSeq(s, i + 1, n)

\* Python a // b for b > 0 (floor division).
PyFloorDiv(a, b) == a \div b

----------------------------------------------------------------------------
(* Configuration (config['thresholds'], config['scoring'])                 *)

thresholds ==
    [elbow_angle         |-> [good_min |-> 120, good_max |-> 150],
     spine_lean          |-> [good_min |-> 5, good_max |-> 25],
     head_knee_alignment |-> [max_distance |-> 4],
     foot_direction      |-> [ideal_angle |-> 45]]

Categories == {"footwork", "head_position", "swing_control", "balance", "follow_through"}

----------------------------------------------------------------------------
(* PoseEstimator.get_joint_coordinates (src/src/pose_estimator.py)         *)
(*                                                                         *)
(* A landmark is [x, y, visibility]: x and y are the normalised            *)
(* coordinates in sixteenths (8 is 0.5), visibility is in hundredths.      *)
(* A resolved joint is XY(x, y) in pixels, an unresolved one is None.      *)

XY(x, y) == [tag |-> "xy", x |-> x, y |-> y]

\* frame.shape after the resize to the target size: (height, width).
frame_shape == [height |-> 6, width |-> 8]

\* int(v / 16) of Python: truncation towards zero.
PyInt16(v) == IF v >= 0 THEN v \div 16 ELSE -((-v) \div 16)

\* The joint resolver with the visibility test landmark['visibility'] >= 0.5.
get_joint_coordinates_inclusive(lm, joint_idx) ==
    IF joint_idx \in DOMAIN lm /\ lm[joint_idx].visibility >= 50
    THEN XY(PyInt16(lm[joint_idx].x * frame_shape.width),
            PyInt16(lm[joint_idx].y * frame_shape.height))
    ELSE None

get_joint_coordinates(lm, joint_idx) ==
    IF joint_idx \in DOMAIN lm
    THEN LET landmark == lm[joint_idx]
         IN  IF landmark.visibility > 50
             THEN XY(PyInt16(landmark.x * frame_shape.width),
                     PyInt16(landmark.y * frame_shape.height))
             ELSE None
    ELSE None

----------------------------------------------------------------------------
(* BiomechanicsAnalyzer (src/src/biomechanics.py)                          *)

\* 10^6 * cos^2((d + 0.5) degrees) for d = 0 .. 89.
CosSqHalfDegrees ==
    <<999924, 999315, 998097, 996273, 993844, 990814, 987185, 982963, 978152, 972759,
       966790, 960252, 953154, 945503, 937310, 928584, 919335, 909576, 899318, 888573,
       877355, 865677, 853553, 840999, 828030, 814660, 800908, 786788, 772320, 757519,
       742405, 726995, 711309, 695366, 679184, 662784, 646186, 629410, 612476, 595404,
       578217, 560935, 543578, 526168, 508726, 491274, 473832, 456422, 439065, 421783,
       404596, 387524, 370590, 353814, 337216, 320816, 304634, 288691, 273005, 257595,
       242481, 227680, 213212, 199092, 185340, 171970, 159001, 146447, 134323, 122645,
       111427, 100682, 90424, 80665, 71416, 62690, 54497, 46846, 39748, 33210,
       27241, 21848, 17037, 12815, 9186, 6156, 3727, 1903, 685, 76>>

\* math.degrees(math.acos(np.clip(dot / (norm1 * norm2), -1.0, 1.0))) for two
\* non-zero integer vectors with the given dot product and squared norms, to
\* the nearest whole degree.  The angle is exactly 0 (180) when the vectors
\* are parallel (opposite) and their norms are exact, as they are for the
\* joint positions used here.
AcosDegrees(dot, sq1, sq2) ==
    LET acute == Cardinality({d \in 1..90 :
                     1000000 * dot * dot < CosSqHalfDegrees[d] * sq1 * sq2})
    IN  IF dot >= 0 THEN acute ELSE 180 - acute

Dot(ax, ay, bx, by) == ax * bx + ay * by

\* With a zero-length vector the quotient is the numpy scalar division 0 / 0.0:
\* it yields nan with a RuntimeWarning and raises nothing, so the except branch
\* is not entered; np.clip, math.acos and math.degrees all pass nan through.
calculate_angle(p1, p2, p3) ==
    LET v1x == p1.x - p2.x
        v1y == p1.y - p2.y
        v2x == p3.x - p2.x
        v2y == p3.y - p2.y
        sq1 == Dot(v1x, v1y, v1x, v1y)
        sq2 == Dot(v2x, v2y, v2x, v2y)
    IN  IF sq1 * sq2 = 0 THEN NaN
        ELSE Num(AcosDegrees(Dot(v1x, v1y, v2x, v2y), sq1, sq2))

\* all([...]) over resolved joints: a coordinate tuple is truthy, None is not.
AllResolved(joints) == \A i \in 1..Len(joints) : joints[i] # None

calculate_front_elbow_angle(lm) ==
    LET shoulder == get_joint_coordinates(lm, 11)
        elbow == get_joint_coordinates(lm, 13)
        wrist == get_joint_coordinates(lm, 15)
    IN  IF AllResolved(<<shoulder, elbow, wrist>>)
        THEN calculate_angle(shoulder, elbow, wrist)
        ELSE None

\* calculate_spine_lean without the `np.linalg.norm(spine_vector) > 0` guard:
\* the quotient of a zero-length vector is nan, as in calculate_angle.
calculate_spine_lean_unguarded(lm) ==
    LET hip == get_joint_coordinates(lm, 23)
        shoulder == get_joint_coordinates(lm, 11)
    IN  IF AllResolved(<<hip, shoulder>>)
        THEN LET sx == shoulder.x - hip.x
                 sy == shoulder.y - hip.y
             IN  IF Dot(sx, sy, sx, sy) > 0
                 THEN Num(AcosDegrees(Dot(0, -1, sx, sy), 1, Dot(sx, sy, sx, sy)))
                 ELSE NaN
        ELSE None

calculate_spine_lean(lm) ==
    LET hip == get_joint_coordinates(lm, 23)
        shoulder == get_joint_coordinates(lm, 11)
    IN  IF AllResolved(<<hip, shoulder>>)
        THEN LET sx == shoulder.x - hip.x
                 sy == shoulder.y - hip.y
             IN  IF Dot(sx, sy, sx, sy) > 0
                 THEN Num(AcosDegrees(Dot(0, -1, sx, sy), 1, Dot(sx, sy, sx, sy)))
                 ELSE None
        ELSE None

calculate_head_knee_alignment(lm) ==
    LET nose == get_joint_coordinates(lm, 0)
        knee == get_joint_coordinates(lm, 25)
    IN  IF AllResolved(<<nose, knee>>) THEN Num(Abs(nose.x - knee.x)) ELSE None

calculate_foot_direction(lm) ==
    LET ankle == get_joint_coordinates(lm, 27)
        foot == get_joint_coordinates(lm, 31)
    IN  IF AllResolved(<<ankle, foot>>)
        THEN LET fx == foot.x - ankle.x
                 fy == foot.y - ankle.y
             IN  IF Dot(fx, fy, fx, fy) > 0
                 THEN Num(AcosDegrees(Dot(1, 0, fx, fy), 1, Dot(fx, fy, fx, fy)))
                 ELSE None
        ELSE None

\* A per-frame message: the text that follows the leading mark, and whether the
\* mark is the check mark (pass) or the cross (fail).
Message(pass, text) == [pass |-> pass, text |-> text]

\* The empty feedback dict.
NoMessages == [k \in {} |-> Message(FALSE, "")]

\* evaluate_metrics with `distance < max_distance` for the head.
evaluate_metrics_head_exclusive(metrics) ==
    LET elbow ==
            IF Truthy(metrics.elbow_angle)
            THEN LET angle == metrics.elbow_angle
                 IN  "elbow" :>
                        (IF /\ IsNum(angle)
                            /\ thresholds.elbow_angle.good_min <= angle.val
                            /\ angle.val <= thresholds.elbow_angle.good_max
                         THEN Message(TRUE, "Good elbow elevation")
                         ELSE Message(FALSE, "Adjust elbow angle"))
            ELSE NoMessages
        spine ==
            IF Truthy(metrics.spine_lean)
            THEN LET lean == metrics.spine_lean
                 IN  "spine" :>
                        (IF /\ IsNum(lean)
                            /\ thresholds.spine_lean.good_min <= lean.val
                            /\ lean.val <= thresholds.spine_lean.good_max
                         THEN Message(TRUE, "Good spine lean")
                         ELSE Message(FALSE, "Adjust forward lean"))
            ELSE NoMessages
        head ==
            IF Truthy(metrics.head_knee_distance)
            THEN LET distance == metrics.head_knee_distance
                 IN  "head" :>
                        (IF /\ IsNum(distance)
                            /\ distance.val < thresholds.head_knee_alignment.max_distance
                         THEN Message(TRUE, "Good head position")
                         ELSE Message(FALSE, "Head not over front knee"))
            ELSE NoMessages
    IN  elbow @@ spine @@ head

\* Every comparison with NaN is False, so a NaN metric gets the fail message.
evaluate_metrics(metrics) ==
    LET elbow ==
            IF Truthy(metrics.elbow_angle)
            THEN LET angle == metrics.elbow_angle
                 IN  "elbow" :>
                        (IF /\ IsNum(angle)
                            /\ thresholds.elbow_angle.good_min <= angle.val
                            /\ angle.val <= thresholds.elbow_angle.good_max
                         THEN Message(TRUE, "Good elbow elevation")
                         ELSE Message(FALSE, "Adjust elbow angle"))
            ELSE NoMessages
        spine ==
            IF Truthy(metrics.spine_lean)
            THEN LET lean == metrics.spine_lean
                 IN  "spine" :>
                        (IF /\ IsNum(lean)
                            /\ thresholds.spine_lean.good_min <= lean.val
                            /\ lean.val <= thresholds.spine_lean.good_max
                         THEN Message(TRUE, "Good spine lean")
                         ELSE Message(FALSE, "Adjust forward lean"))
            ELSE NoMessages
        head ==
            IF Truthy(metrics.head_knee_distance)
            THEN LET distance == metrics.head_knee_distance
                 IN  "head" :>
                        (IF /\ IsNum(distance)
                            /\ distance.val <= thresholds.head_knee_alignment.max_distance
                         THEN Message(TRUE, "Good head position")
                         ELSE Message(FALSE, "Head not over front knee"))
            ELSE NoMessages
    IN  elbow @@ spine @@ head

----------------------------------------------------------------------------
(* ShotEvaluator (src/src/evaluator.py)                                    *)

\* The samples of every frame but the first.
ValidSamples_skip_first(h, field) ==
    SelectSeq([i \in 1..(Len(h) - 1) |-> h[i + 1][field]], Truthy)

\* [m.get(field) for m in metrics_history if m.get(field)]
ValidSamples(h, field) ==
    SelectSeq([i \in 1..Len(h) |-> h[i][field]], Truthy)

\* A history with frames but no foot_direction sample scores 5.0 (wrong default).
FootworkNoSamplesCollapsed == 1000 \div 2

\* evaluator.py:49, the footwork score of a history without foot_direction samples.
FootworkNoSamples == 600

\* The mean of the signed differences sample - ideal_angle (np.abs left out).
evaluate_footwork_signed(h) ==
    IF h = <<>> THEN 500
    ELSE LET foot_angles == ValidSamples(h, "foot_direction")
         IN  IF foot_angles = <<>> THEN 600
             ELSE LET ideal_angle == thresholds.foot_direction.ideal_angle
                      total == SeqSum([i \in 1..Len(foot_angles) |->
                                          foot_angles[i].val - ideal_angle])
                  IN  IF total <= 10 * Len(foot_angles) THEN 900
                      ELSE IF total <= 20 * Len(foot_angles) THEN 700
                      ELSE IF total <= 30 * Len(foot_angles) THEN 500
                      ELSE 300

evaluate_footwork(h) ==
    IF h = <<>> THEN 500
    ELSE LET foot_angles == ValidSamples(h, "foot_direction")
         IN  IF foot_angles = <<>> THEN FootworkNoSamples
             ELSE LET ideal_angle == thresholds.foot_direction.ideal_angle
                      dev(a) == Abs(a.val - ideal_angle)
                      deviations == [i \in 1..Len(foot_angles) |-> dev(foot_angles[i])]
                      avg_deviation == Rat(SeqSum(deviations), Len(deviations))
                  IN  IF RatLeq(avg_deviation, 10, 1) THEN 900
                      ELSE IF RatLeq(avg_deviation, 20, 1) THEN 700
                      ELSE IF RatLeq(avg_deviation, 30, 1) THEN 500
                      ELSE 300

\* Cutoffs at 1, 2 and 3 times max_distance (the factors 0.5 and 1.5 left out).
evaluate_head_position_whole_cutoffs(head_distances) ==
    IF head_distances = <<>> THEN 500
    ELSE LET total == SeqSum([i \in 1..Len(head_distances) |-> head_distances[i].val])
             avg_distance == Rat(total, Len(head_distances))
             max_allowed == thresholds.head_knee_alignment.max_distance
         IN  IF RatLeq(avg_distance, max_allowed, 1) THEN 900
             ELSE IF RatLeq(avg_distance, max_allowed * 2, 1) THEN 700
             ELSE IF RatLeq(avg_distance, max_allowed * 3, 1) THEN 500
             ELSE 300

evaluate_head_position(head_distances) ==
    IF head_distances = <<>> THEN 500
    ELSE LET total == SeqSum([i \in 1..Len(head_distances) |-> head_distances[i].val])
             avg_distance == Rat(total, Len(head_distances))
             max_allowed == thresholds.head_knee_alignment.max_distance
         IN  IF RatLeq(avg_distance, max_allowed * 5, 10) THEN 900
             ELSE IF RatLeq(avg_distance, max_allowed, 1) THEN 700
             ELSE IF RatLeq(avg_distance, max_allowed * 15, 10) THEN 500
             ELSE 300

\* good_min < angle <= good_max (the lower end left open).
InRangeOpenLow(x, lo, hi) == x.tag = "num" /\ lo < x.val /\ x.val <= hi

\* good_min <= angle <= good_max; every comparison with NaN is False.
InRange(x, lo, hi) == IsNum(x) /\ lo <= x.val /\ x.val <= hi

InRangeCount(s, lo, hi) ==
    Cardinality({i \in 1..Len(s) : InRange(s[i], lo, hi)})

evaluate_swing_control(elbow_angles) ==
    IF elbow_angles = <<>> THEN 500
    ELSE LET good_min == thresholds.elbow_angle.good_min
             good_max == thresholds.elbow_angle.good_max
             in_range_count == InRangeCount(elbow_angles, good_min, good_max)
             percentage_in_range == Rat(in_range_count, Len(elbow_angles))
         IN  IF RatGeq(percentage_in_range, 8, 10) THEN 900
             ELSE IF RatGeq(percentage_in_range, 6, 10) THEN 700
             ELSE IF RatGeq(percentage_in_range, 4, 10) THEN 500
             ELSE 300

\* The balance scorer with the cutoffs of the swing-control scorer.
evaluate_balance_swing_cutoffs(spine_leans) ==
    IF spine_leans = <<>> THEN 500
    ELSE LET in_range_count == InRangeCount(spine_leans, thresholds.spine_lean.good_min,
                                            thresholds.spine_lean.good_max)
             percentage_in_range == Rat(in_range_count, Len(spine_leans))
         IN  IF RatGeq(percentage_in_range, 8, 10) THEN 900
             ELSE IF RatGeq(percentage_in_range, 6, 10) THEN 700
             ELSE IF RatGeq(percentage_in_range, 4, 10) THEN 500
             ELSE 300

evaluate_balance(spine_leans) ==
    IF spine_leans = <<>> THEN 500
    ELSE LET good_min == thresholds.spine_lean.good_min
             good_max == thresholds.spine_lean.good_max
             in_range_count == InRangeCount(spine_leans, good_min, good_max)
             percentage_in_range == Rat(in_range_count, Len(spine_leans))
         IN  IF RatGeq(percentage_in_range, 7, 10) THEN 900
             ELSE IF RatGeq(percentage_in_range, 5, 10) THEN 700
             ELSE IF RatGeq(percentage_in_range, 3, 10) THEN 500
             ELSE 300

\* np.var: the population variance, NaN as soon as one sample is NaN.
\* The sample variance (divisor n - 1) in place of the population variance.
Variance_sample(s) ==
    IF \E i \in 1..Len(s) : ~IsNum(s[i]) THEN NaN
    ELSE LET n == Len(s)
             S == SeqSum([i \in 1..n |-> s[i].val])
             Q == SeqSum([i \in 1..n |-> s[i].val * s[i].val])
         IN  Rat(n * Q - S * S, n * (n - 1))

Variance(s) ==
    IF \E i \in 1..Len(s) : ~IsNum(s[i]) THEN NaN
    ELSE LET n == Len(s)
             S == SeqSum([i \in 1..n |-> s[i].val])
             Q == SeqSum([i \in 1..n |-> s[i].val * s[i].val])
         IN  Rat(n * Q - S * S, n * n)

\* angle_variance <= k; False for a NaN variance.
VarLeq(v, k) == v # NaN /\ RatLeq(v, k, 1)

\* The slice start -(n // 5): the count floor-divided, then negated.
FinalStartFloor(n) == -PyFloorDiv(n, 5)

\* The start index of the slice metrics_history[-len(metrics_history)//5:]:
\* the unary minus binds tighter than //, so this is (-n) // 5.
FinalStart(n) == PyFloorDiv(-n, 5)

\* A frame floor one lower than the code's.
MinFollowFramesLow == 10 - 1

\* evaluator.py:128, the frame count below which follow-through is not evaluated.
MinFollowFrames == 10

\* The window taken over the elbow_angle samples of the whole history, not over
\* its frames: the last ceil(n/5) samples wherever their frames lie.
evaluate_followthrough_last_samples(h) ==
    IF Len(h) < MinFollowFrames THEN 500
    ELSE LET final_elbow_angles ==
                 PySliceFrom(ValidSamples(h, "elbow_angle"), FinalStart(Len(h)))
         IN  IF final_elbow_angles = <<>> THEN 500
             ELSE LET angle_variance == Variance(final_elbow_angles)
                  IN  IF VarLeq(angle_variance, 100) THEN 800
                      ELSE IF VarLeq(angle_variance, 300) THEN 600
                      ELSE 400

evaluate_followthrough(h) ==
    IF Len(h) < MinFollowFrames THEN 500
    ELSE LET final_frames == PySliceFrom(h, FinalStart(Len(h)))
             final_elbow_angles == ValidSamples(final_frames, "elbow_angle")
         IN  IF final_elbow_angles = <<>> THEN 500
             ELSE LET angle_variance == Variance(final_elbow_angles)
                  IN  IF VarLeq(angle_variance, 100) THEN 800
                      ELSE IF VarLeq(angle_variance, 300) THEN 600
                      ELSE 400

\* The category scores without the follow_through entry.
calculate_category_scores_no_followthrough(h) ==
    [footwork       |-> evaluate_footwork(h),
     head_position  |-> evaluate_head_position(ValidSamples(h, "head_knee_distance")),
     swing_control  |-> evaluate_swing_control(ValidSamples(h, "elbow_angle")),
     balance        |-> evaluate_balance(ValidSamples(h, "spine_lean"))]

calculate_category_scores(h) ==
    LET elbow_angles == ValidSamples(h, "elbow_angle")
        spine_leans == ValidSamples(h, "spine_lean")
        head_distances == ValidSamples(h, "head_knee_distance")
    IN  [footwork       |-> evaluate_footwork(h),
         head_position  |-> evaluate_head_position(head_distances),
         swing_control  |-> evaluate_swing_control(elbow_angles),
         balance        |-> evaluate_balance(spine_leans),
         follow_through |-> evaluate_followthrough(h)]

\* scoring_weights.get(category, 0.0): an unlisted category counts for nothing.
DefaultWeightZero == 20 - 20

\* evaluator.py:251, the weight 0.2 of a category absent from config['scoring'].
DefaultWeight == 20

\* scoring_weights.get(category, 0.2)
WeightOf(w, category) == IF category \in DOMAIN w THEN w[category] ELSE DefaultWeight

\* for category, score in category_scores.items(): overall += score * weight
\* (in units of 1/10000: a score in hundredths times a weight in hundredths).
RECURSIVE WeightedSum(_, _, _)
WeightedSum(cs, w, todo) ==
    IF todo = {} THEN 0
    ELSE LET category == CHOOSE c \in todo : TRUE
         IN  cs[category] * WeightOf(w, category) + WeightedSum(cs, w, todo \ {category})

\* round(x, 1) of x >= 0 given in units of 1/10000, the result in hundredths:
\* to the nearest tenth, an exact tie to the even tenth.
PyRound1(x) ==
    LET tenths == x \div 1000
        rest == x % 1000
    IN  10 * (IF rest > 500 THEN tenths + 1
              ELSE IF rest < 500 THEN tenths
              ELSE IF tenths % 2 = 0 THEN tenths ELSE tenths + 1)

calculate_overall_score(cs, w) == PyRound1(WeightedSum(cs, w, DOMAIN cs))

\* The grader with the Advanced boundary exclusive (overall_score > 8.0).
determine_grade_exclusive(score) ==
    IF score > 800 THEN "Advanced"
    ELSE IF score >= 600 THEN "Intermediate"
    ELSE "Beginner"

\* The grader with the Intermediate boundary exclusive (overall_score > 6.0).
determine_grade_intermediate_exclusive(score) ==
    IF score >= 800 THEN "Advanced"
    ELSE IF score > 600 THEN "Intermediate"
    ELSE "Beginner"

determine_grade(score) ==
    IF score >= 800 THEN "Advanced"
    ELSE IF score >= 600 THEN "Intermediate"
    ELSE "Beginner"

----------------------------------------------------------------------------
(* ShotEvaluator.generate_feedback (src/src/evaluator.py)                   *)

\* if score > 8: high, elif score > 6: mid, else: low (the cutoffs left out of
\* their bands).
FeedbackChoice_exclusive(score, high, mid, low) ==
    IF score > 800 THEN high ELSE IF score > 600 THEN mid ELSE low

\* if score >= 8: high, elif score >= 6: mid, else: low
FeedbackChoice(score, high, mid, low) ==
    IF score >= 800 THEN high ELSE IF score >= 600 THEN mid ELSE low

generate_feedback(scores) ==
    [footwork |->
        FeedbackChoice(scores.footwork,
             <<"Excellent foot positioning and movement",
               "Maintain this stance consistency in future shots">>,
             <<"Good footwork with minor adjustments needed",
               "Focus on foot direction alignment with the shot">>,
             <<"Work on foot positioning and balance",
               "Practice getting your front foot pointing toward the target">>),
     head_position |->
        FeedbackChoice(scores.head_position,
             <<"Excellent head stability over front knee",
               "Great visual alignment with the ball">>,
             <<"Good head position with room for improvement",
               "Keep your head more directly over your front knee">>,
             <<"Focus on keeping head still and over front knee",
               "Practice watching the ball closely through contact">>),
     swing_control |->
        FeedbackChoice(scores.swing_control,
             <<"Excellent elbow positioning and swing path",
               "Consistent technique throughout the shot">>,
             <<"Good swing mechanics with minor refinements needed",
               "Work on maintaining consistent elbow height">>,
             <<"Focus on keeping front elbow up and extended",
               "Practice smooth, controlled swing movements">>),
     balance |->
        FeedbackChoice(scores.balance,
             <<"Excellent balance and body positioning",
               "Great forward lean and weight transfer">>,
             <<"Good balance with slight improvements possible",
               "Maintain consistent forward lean angle">>,
             <<"Work on balance and weight distribution",
               "Practice proper forward lean into the shot">>),
     follow_through |->
        FeedbackChoice(scores.follow_through,
             <<"Excellent follow-through completion",
               "Good extension and finish position">>,
             <<"Good follow-through with room for smoothness",
               "Focus on completing the swing motion">>,
             <<"Work on completing your follow-through",
               "Practice extending fully through the shot">>)]

----------------------------------------------------------------------------
(* Scoring a metrics history: the history is built frame by frame, as the  *)
(* frame loop of analyze_video builds it, and then scored.                 *)

MaxFrames == 11

MaxMixFrames == 2

FrameMetrics(n, e, s, d, f) ==
    [frame_number |-> n, elbow_angle |-> e, spine_lean |-> s,
     head_knee_distance |-> d, foot_direction |-> f]

\* The metric values of one frame, without its frame number.
Readings(e, s, d, f) ==
    [elbow_angle |-> e, spine_lean |-> s, head_knee_distance |-> d, foot_direction |-> f]

NoReadings == Readings(None, None, None, None)

\* A long video: each frame is a failed detection, a good pose or a poor pose.
LongReadings ==
    {NoReadings,
     Readings(Num(120), Num(25), Num(2), Num(40)),
     Readings(Num(156), Num(26), Num(10), Num(90))}

\* A short video: every metric of a frame is present or absent on its own.
MixReadings ==
    {Readings(e, s, d, f) :
        e \in {None, NaN, Num(150)}, s \in {None, Num(5)},
        d \in {None, Num(6)}, f \in {None, Num(75)}}

VideoReadings(v) == IF v = "long" THEN LongReadings ELSE MixReadings

VideoLimit(v) == IF v = "long" THEN MaxFrames ELSE MaxMixFrames

NoScores == [c \in {} |-> 0]

\* main.py:59-60 and before: nothing of the frame loop has run.
NoRun ==
    /\ frame_count = 0
    /\ frame_feedback = [m \in {} |-> ""]
    /\ feedback = [c \in {} |-> <<>>]
    /\ evaluation = <<>>
    /\ key = ""
    /\ pose_data = None

Idle ==
    /\ landmarks = [j \in {} |-> 0]
    /\ frame_metrics = NoReadings
    /\ computed = NoReadings
    /\ overall_score = 0
    /\ weights = [c \in {} |-> 0]
    /\ grade = ""
    /\ NoRun

InitScore ==
    /\ pc = "collect"
    /\ video \in {"long", "mix"}
    /\ metrics_history = <<>>
    /\ category_scores = NoScores
    /\ Idle

\* main.py:87-93, 125: one more FrameMetrics is appended to the history.
AppendFrame ==
    /\ pc = "collect"
    /\ Len(metrics_history) < VideoLimit(video)
    /\ \E r \in VideoReadings(video) :
          metrics_history' = Append(metrics_history,
              FrameMetrics(Len(metrics_history), r.elbow_angle, r.spine_lean,
                           r.head_knee_distance, r.foot_direction))
    /\ UNCHANGED <<pc, landmarks, frame_metrics, category_scores,
                   overall_score, weights, grade, computed, video>>
    /\ UNCHANGED run_vars

\* main.py:160: category_scores = evaluator.calculate_category_scores(metrics_history)
Score ==
    /\ pc = "collect"
    /\ pc' = "scored"
    /\ category_scores' = calculate_category_scores(metrics_history)
    /\ UNCHANGED <<landmarks, frame_metrics, metrics_history,
                   overall_score, weights, grade, computed, video>>
    /\ UNCHANGED run_vars

NextScore == AppendFrame \/ Score

SpecScore == InitScore /\ [][NextScore]_vars

----------------------------------------------------------------------------
(* Properties of the category scorer, checked under SpecScore              *)

Scored == pc = "scored"

\* The trailing k frames of a history.
Trailing(h, k) == SubSeq(h, Len(h) - k + 1, Len(h))

\* The frames of h whose metric m is a sample (neither None nor zero).
Present(h, m) == {i \in 1..Len(h) : h[i][m] # None /\ h[i][m] # Num(0)}

\* The follow-through score of a window of frames: 5.0 without elbow_angle
\* samples, else banded on the population variance of the samples.
WindowScore(w) ==
    LET P == Present(w, "elbow_angle")
        n == Cardinality(P)
    IN  IF P = {} THEN 500
        ELSE IF \E i \in P : w[i].elbow_angle = NaN THEN 400
        ELSE LET S == SeqSum([i \in 1..Len(w) |->
                         IF i \in P THEN w[i].elbow_angle.val ELSE 0])
                 Q == SeqSum([i \in 1..Len(w) |->
                         IF i \in P THEN w[i].elbow_angle.val * w[i].elbow_angle.val ELSE 0])
             IN  IF n * Q - S * S <= 100 * n * n THEN 800
                 ELSE IF n * Q - S * S <= 300 * n * n THEN 600
                 ELSE 400

CeilDiv(a, b) == (a + b - 1) \div b

\* C1 (as stated): for a history of n >= 10 frames the follow-through score is
\* the score of the trailing floor(n/5) frames, whatever the other frames hold.
C1_TrailingFloorWindow ==
    (Scored /\ Len(metrics_history) >= 10) =>
        category_scores.follow_through =
            WindowScore(Trailing(metrics_history, Len(metrics_history) \div 5))

\* C1 (amended): for a history of n >= 10 frames the follow-through score is
\* the score of the trailing ceil(n/5) frames (a 23-frame history uses the
\* trailing 5 frames), whatever the other frames hold.
C1_TrailingCeilWindow ==
    (Scored /\ Len(metrics_history) >= 10) =>
        category_scores.follow_through =
            WindowScore(Trailing(metrics_history, CeilDiv(Len(metrics_history), 5)))

\* An 11-frame history whose third frame from the end decides the score: it lies
\* in the trailing ceil(11/5) = 3 frames and outside the trailing floor(11/5) = 2.
C1_Witness ==
    /\ Scored
    /\ Len(metrics_history) = 11
    /\ metrics_history[9].elbow_angle = Num(156)
    /\ metrics_history[10].elbow_angle = Num(120)
    /\ metrics_history[11].elbow_angle = Num(120)
    /\ category_scores.follow_through = 600

\* C4: the footwork score is 5.0 for an empty history and 6.0 for a non-empty
\* history in which no frame has a foot_direction sample.
C4_FootworkDefaults ==
    Scored =>
        /\ metrics_history = <<>> => category_scores.footwork = 500
        /\ (metrics_history # <<>> /\ Present(metrics_history, "foot_direction") = {})
              => category_scores.footwork = 600

\* A scored non-empty history without foot_direction samples but with other metrics.
C4_Witness ==
    /\ Scored
    /\ metrics_history # <<>>
    /\ Present(metrics_history, "foot_direction") = {}
    /\ Present(metrics_history, "elbow_angle") # {}
    /\ category_scores.footwork = 600

\* C5: a history of fewer than 10 frames has follow-through score 5.0,
\* whatever its frames hold.
C5_ShortHistoryFollowThrough ==
    (Scored /\ Len(metrics_history) < 10) => category_scores.follow_through = 500

\* A scored 9-frame history whose last two frames hold unlike elbow angles.
C5_Witness ==
    /\ Scored
    /\ Len(metrics_history) = 9
    /\ metrics_history[8].elbow_angle = Num(120)
    /\ metrics_history[9].elbow_angle = Num(156)
    /\ category_scores.follow_through = 500

\* C8: calculate_category_scores returns exactly the five category keys and
\* every score lies in [3.0, 9.0].
C8_FiveScoresInRange ==
    Scored =>
        /\ DOMAIN category_scores = Categories
        /\ \A c \in Categories : 300 <= category_scores[c] /\ category_scores[c] <= 900

\* A scored history of at least 10 frames that reaches the top of the range
\* together with the lowest follow-through band.
C8_Witness ==
    /\ Scored
    /\ Len(metrics_history) >= 10
    /\ \E c \in Categories : category_scores[c] = 900
    /\ category_scores.follow_through = 400

\* The band of a fraction k/n against three descending cutoffs given in tenths.
FractionBand(k, n, c9, c7, c5) ==
    IF 10 * k >= c9 * n THEN 900
    ELSE IF 10 * k >= c7 * n THEN 700
    ELSE IF 10 * k >= c5 * n THEN 500
    ELSE 300

\* The frames whose metric m is a number inside the closed range [lo, hi].
Inside(h, m, lo, hi) ==
    {i \in Present(h, m) : h[i][m] # NaN /\ lo <= h[i][m].val /\ h[i][m].val <= hi}

\* C9: swing control is 5.0 without elbow_angle samples, else banded on the
\* fraction of samples inside [good_min, good_max] at 0.8, 0.6 and 0.4.
C9_SwingControlBands ==
    Scored =>
        category_scores.swing_control =
            IF Present(metrics_history, "elbow_angle") = {} THEN 500
            ELSE FractionBand(
                    Cardinality(Inside(metrics_history, "elbow_angle", 120, 150)),
                    Cardinality(Present(metrics_history, "elbow_angle")), 8, 6, 4)

\* Five elbow samples of which exactly four are in range (one at good_min): 9.0.
C9_Witness ==
    /\ Scored
    /\ Cardinality(Present(metrics_history, "elbow_angle")) = 5
    /\ Cardinality(Inside(metrics_history, "elbow_angle", 120, 150)) = 4
    /\ category_scores.swing_control = 900

\* C10: balance is 5.0 without spine_lean samples, else banded on the fraction
\* of samples inside [good_min, good_max] at 0.7, 0.5 and 0.3.
C10_BalanceBands ==
    Scored =>
        category_scores.balance =
            IF Present(metrics_history, "spine_lean") = {} THEN 500
            ELSE FractionBand(
                    Cardinality(Inside(metrics_history, "spine_lean", 5, 25)),
                    Cardinality(Present(metrics_history, "spine_lean")), 7, 5, 3)

\* Ten spine samples of which exactly seven are in range: 9.0 at the cutoff.
C10_Witness ==
    /\ Scored
    /\ Cardinality(Present(metrics_history, "spine_lean")) = 10
    /\ Cardinality(Inside(metrics_history, "spine_lean", 5, 25)) = 7
    /\ category_scores.balance = 900

\* The sum of metric m over the frames of h listed in P.
SampleSum(h, m, P) == SeqSum([i \in 1..Len(h) |-> IF i \in P THEN h[i][m].val ELSE 0])

\* C11: head position is 5.0 without head_knee_distance samples; else, with d the
\* mean of the samples and M = max_distance, it is 9.0 if d <= 0.5 M, 7.0 if
\* d <= M, 5.0 if d <= 1.5 M and 3.0 otherwise.
C11_HeadPositionBands ==
    Scored =>
        LET P == Present(metrics_history, "head_knee_distance")
            n == Cardinality(P)
            S == SampleSum(metrics_history, "head_knee_distance", P)
            M == thresholds.head_knee_alignment.max_distance
        IN  category_scores.head_position =
                IF P = {} THEN 500
                ELSE IF 2 * S <= M * n THEN 900
                ELSE IF S <= M * n THEN 700
                ELSE IF 2 * S <= 3 * M * n THEN 500
                ELSE 300

\* Four head samples, three of 2 and one of 10: their mean is exactly M = 4, 7.0.
C11_Witness ==
    /\ Scored
    /\ Cardinality(Present(metrics_history, "head_knee_distance")) = 4
    /\ SampleSum(metrics_history, "head_knee_distance",
                 Present(metrics_history, "head_knee_distance")) = 16
    /\ category_scores.head_position = 700

\* The sum of |sample - ideal| of foot_direction over the frames of h listed in P.
DeviationSum(h, ideal, P) ==
    SeqSum([i \in 1..Len(h) |-> IF i \in P THEN Abs(h[i].foot_direction.val - ideal) ELSE 0])

\* C12: with at least one foot_direction sample, footwork is banded on the mean
\* of |sample - ideal_angle|: 9.0 if <= 10, 7.0 if <= 20, 5.0 if <= 30, else 3.0.
C12_FootworkBands ==
    (Scored /\ Present(metrics_history, "foot_direction") # {}) =>
        LET P == Present(metrics_history, "foot_direction")
            n == Cardinality(P)
            D == DeviationSum(metrics_history, thresholds.foot_direction.ideal_angle, P)
        IN  category_scores.footwork =
                IF D <= 10 * n THEN 900
                ELSE IF D <= 20 * n THEN 700
                ELSE IF D <= 30 * n THEN 500
                ELSE 300

\* Two foot samples, 40 and 90, on either side of the ideal 45: the mean
\* deviation is 25 (the mean signed difference is 20), 5.0.
C12_Witness ==
    /\ Scored
    /\ Cardinality(Present(metrics_history, "foot_direction")) = 2
    /\ DeviationSum(metrics_history, 45, Present(metrics_history, "foot_direction")) = 50
    /\ category_scores.footwork = 500

----------------------------------------------------------------------------
(* Scoring the finish of a shot: histories that differ in the elbow angles  *)
(* of their last frames, checked under SpecFollow                          *)

MaxFollowFrames == 11

\* The elbow angles a frame can hold.
ElbowValues == {None, NaN, Num(110), Num(130), Num(150)}

\* The frames up to the shortest follow-through window hold an elbow angle of
\* 150 or none; the frames after them hold any of ElbowValues.
FinishElbows(position) ==
    IF position < MinFollowFrames - 2 THEN {None, Num(150)} ELSE ElbowValues

InitFollow ==
    /\ pc = "collect"
    /\ video = "finish"
    /\ metrics_history = <<>>
    /\ category_scores = NoScores
    /\ Idle

\* main.py:87-93, 125: one more FrameMetrics is appended to the history.
AppendFinishFrame ==
    /\ pc = "collect"
    /\ video = "finish"
    /\ Len(metrics_history) < MaxFollowFrames
    /\ \E e \in FinishElbows(Len(metrics_history)) :
          metrics_history' = Append(metrics_history,
              FrameMetrics(Len(metrics_history), e, None, None, None))
    /\ UNCHANGED <<pc, landmarks, frame_metrics, category_scores,
                   overall_score, weights, grade, computed, video>>
    /\ UNCHANGED run_vars

NextFollow == AppendFinishFrame \/ Score

SpecFollow == InitFollow /\ [][NextFollow]_vars

\* The positions of the frames the slice metrics_history[-len//5:] keeps.
FinalPositions(h) == (Len(h) - CeilDiv(Len(h), 5) + 1)..Len(h)

\* C13: for n >= 10 the follow-through window is a window of frame positions.
\* If no frame of the trailing window has an elbow_angle the score is 5.0,
\* however many earlier frames have one; and replacing the elbow_angle of a
\* frame outside the window by any other value leaves the score unchanged.
C13_WindowOverFramePositions ==
    (Scored /\ Len(metrics_history) >= 10) =>
        /\ (FinalPositions(metrics_history) \cap Present(metrics_history, "elbow_angle") = {})
              => category_scores.follow_through = 500
        /\ \A i \in (1..Len(metrics_history)) \ FinalPositions(metrics_history) :
              \A e \in ElbowValues :
                 evaluate_followthrough([metrics_history EXCEPT ![i].elbow_angle = e])
                     = category_scores.follow_through

\* An 11-frame history: each of the first eight frames has an elbow angle, the
\* trailing three frames have none; the score is 5.0.
C13_Witness ==
    /\ Scored
    /\ Len(metrics_history) = 11
    /\ Present(metrics_history, "elbow_angle") = 1..8
    /\ category_scores.follow_through = 500

\* C14: when the trailing window holds at least one elbow_angle sample, the
\* follow-through score is 8.0 if the population variance v of the window's
\* samples is <= 100, 6.0 if v <= 300, and 4.0 otherwise (a NaN sample makes
\* v NaN, which is the otherwise case).
C14_VarianceBands ==
    (Scored /\ Len(metrics_history) >= 10) =>
        LET P == FinalPositions(metrics_history) \cap Present(metrics_history, "elbow_angle")
            n == Cardinality(P)
            S == SampleSum(metrics_history, "elbow_angle", P)
            Q == SeqSum([i \in 1..Len(metrics_history) |->
                     IF i \in P THEN metrics_history[i].elbow_angle.val *
                                     metrics_history[i].elbow_angle.val
                     ELSE 0])
        IN  P # {} =>
              category_scores.follow_through =
                 IF \E i \in P : metrics_history[i].elbow_angle = NaN THEN 400
                 ELSE IF n * Q - S * S <= 100 * n * n THEN 800
                 ELSE IF n * Q - S * S <= 300 * n * n THEN 600
                 ELSE 400

\* A 10-frame history whose trailing two frames hold 110 and 130: the population
\* variance is exactly 100 (the sample variance is 200), 8.0.
C14_Witness ==
    /\ Scored
    /\ Len(metrics_history) = 10
    /\ metrics_history[9].elbow_angle = Num(110)
    /\ metrics_history[10].elbow_angle = Num(130)
    /\ category_scores.follow_through = 800

----------------------------------------------------------------------------
(* Scoring a history and its reorderings, checked under SpecOrder           *)

MaxOrderFrames == 10

\* The longest history of which every permutation is scored.
MaxPermLen == 5

InitOrder ==
    /\ pc = "collect"
    /\ video = "order"
    /\ metrics_history = <<>>
    /\ category_scores = NoScores
    /\ Idle

\* main.py:87-93, 125: one more FrameMetrics is appended to the history.
AppendOrderFrame ==
    /\ pc = "collect"
    /\ video = "order"
    /\ Len(metrics_history) < MaxOrderFrames
    /\ \E r \in LongReadings :
          metrics_history' = Append(metrics_history,
              FrameMetrics(Len(metrics_history), r.elbow_angle, r.spine_lean,
                           r.head_knee_distance, r.foot_direction))
    /\ UNCHANGED <<pc, landmarks, frame_metrics, category_scores,
                   overall_score, weights, grade, computed, video>>
    /\ UNCHANGED run_vars

NextOrder == AppendOrderFrame \/ Score

SpecOrder == InitOrder /\ [][NextOrder]_vars

\* The frames of h in the order p, a permutation of 1..Len(h).
Permuted(h, p) == [i \in 1..Len(h) |-> h[p[i]]]

\* Three reorderings of a history of at least two frames: the first two frames
\* exchanged, the last frame moved to the front, and the reversal.  The first
\* two generate every permutation.
Reorderings(h) ==
    IF Len(h) < 2 THEN {h}
    ELSE {<<h[2], h[1]>> \o SubSeq(h, 3, Len(h)),
          <<h[Len(h)]>> \o SubSeq(h, 1, Len(h) - 1),
          [i \in 1..Len(h) |-> h[Len(h) + 1 - i]]}

\* The four scores other than follow_through.
OrderFreeScores(cs) ==
    [footwork |-> cs.footwork, head_position |-> cs.head_position,
     swing_control |-> cs.swing_control, balance |-> cs.balance]

\* C20: the footwork, head_position, swing_control and balance scores of a
\* history are the scores of every permutation of its frames (every permutation
\* of a history of up to MaxPermLen frames; of any history the exchange of the
\* first two frames, the move of the last frame to the front and the reversal).
C20_OrderFreeScores ==
    Scored =>
        /\ Len(metrics_history) <= MaxPermLen =>
              \A p \in Permutations(1..Len(metrics_history)) :
                 OrderFreeScores(calculate_category_scores(Permuted(metrics_history, p)))
                     = OrderFreeScores(category_scores)
        /\ \A h \in Reorderings(metrics_history) :
              OrderFreeScores(calculate_category_scores(h)) = OrderFreeScores(category_scores)

\* A 10-frame history ending in elbow angles 120 and 156 (follow-through 4.0):
\* with its last frame moved to the front the trailing two frames both hold 120
\* and the follow-through score is 8.0, the other four scores being as before.
C20_Witness ==
    /\ Scored
    /\ Len(metrics_history) = 10
    /\ \A i \in 1..9 : metrics_history[i].elbow_angle = Num(120)
    /\ metrics_history[10].elbow_angle = Num(156)
    /\ category_scores.follow_through = 400
    /\ \E h \in Reorderings(metrics_history) :
          /\ calculate_category_scores(h).follow_through = 800
          /\ OrderFreeScores(calculate_category_scores(h)) = OrderFreeScores(category_scores)

----------------------------------------------------------------------------
(* Scoring, overall score and grade of a history with every weight 0.2,     *)
(* checked under SpecGrade                                                 *)

InitGrade ==
    /\ pc = "collect"
    /\ video = "order"
    /\ metrics_history = <<>>
    /\ category_scores = NoScores
    /\ weights = [c \in Categories |-> 20]
    /\ landmarks = [j \in {} |-> 0]
    /\ frame_metrics = NoReadings
    /\ computed = NoReadings
    /\ overall_score = 0
    /\ grade = ""
    /\ NoRun

\* evaluator.py:258-265: the overall score of the category scores and its grade.
GradeScores ==
    /\ pc = "scored"
    /\ pc' = "graded"
    /\ overall_score' = calculate_overall_score(category_scores, weights)
    /\ grade' = determine_grade(overall_score')
    /\ UNCHANGED <<landmarks, frame_metrics, metrics_history, category_scores,
                   weights, computed, video>>
    /\ UNCHANGED run_vars

NextGrade == AppendOrderFrame \/ Score \/ GradeScores

SpecGrade == InitGrade /\ [][NextGrade]_vars

\* The sum of the five category scores, in hundredths.
ScoreSum(cs) ==
    cs.footwork + cs.head_position + cs.swing_control + cs.balance + cs.follow_through

\* C23: with every weight 0.2 the overall score of a history's category scores
\* lies in [3.2, 8.8] (four categories within {3, 5, 6, 7, 9}, follow_through
\* within {4, 5, 6, 8}), so it never exceeds 10, and the grade is Advanced iff
\* the five scores sum to at least 40, Intermediate iff to at least 30 and less
\* than 40, Beginner otherwise.
C23_OverallRangeAndGrade ==
    pc = "graded" =>
        /\ \A c \in Categories \ {"follow_through"} :
              category_scores[c] \in {300, 500, 600, 700, 900}
        /\ category_scores.follow_through \in {400, 500, 600, 800}
        /\ 320 <= overall_score /\ overall_score <= 880
        /\ overall_score <= 1000
        /\ grade = IF ScoreSum(category_scores) >= 4000 THEN "Advanced"
                   ELSE IF ScoreSum(category_scores) >= 3000 THEN "Intermediate"
                   ELSE "Beginner"

\* A graded history whose five scores sum to exactly 30: Intermediate.
C23_Witness ==
    /\ pc = "graded"
    /\ ScoreSum(category_scores) = 3000
    /\ overall_score = 600
    /\ grade = "Intermediate"

----------------------------------------------------------------------------
(* Direct calls of generate_feedback, checked under SpecFeedback            *)

\* Scores handed to generate_feedback: both cutoffs, a score just below each,
\* and the ends of the scorer's range.
FeedbackScores == {300, 599, 600, 799, 800, 900}

InitFeedback ==
    /\ pc = "feedback_call"
    /\ category_scores \in [Categories -> FeedbackScores]
    /\ metrics_history = <<>>
    /\ video = "none"
    /\ Idle

\* main.py:161: feedback = evaluator.generate_feedback(category_scores)
CallGenerateFeedback ==
    /\ pc = "feedback_call"
    /\ pc' = "feedback_done"
    /\ feedback' = generate_feedback(category_scores)
    /\ UNCHANGED <<landmarks, frame_metrics, metrics_history, category_scores,
                   overall_score, weights, grade, computed, video,
                   frame_count, frame_feedback, evaluation, key, pose_data>>

NextFeedback == CallGenerateFeedback

SpecFeedback == InitFeedback /\ [][NextFeedback]_vars

\* The band of a score: at least 8, at least 6, lower.
Band(score) == IF score >= 800 THEN "high" ELSE IF score >= 600 THEN "mid" ELSE "low"

\* C15: generate_feedback returns a mapping with exactly the five category keys,
\* each holding a list of exactly 2 strings that depends only on the category and
\* on the band of that category's score (>= 8, >= 6, lower): a score of the same
\* band gives the same pair, a score of another band gives a different pair, and
\* the scores of the other categories do not matter.
C15_FeedbackByBand ==
    pc = "feedback_done" =>
        /\ DOMAIN feedback = Categories
        /\ \A c \in Categories :
              /\ Len(feedback[c]) = 2
              /\ \A i \in 1..2 : feedback[c][i] \in STRING
              /\ \A score \in FeedbackScores :
                    (generate_feedback([category_scores EXCEPT ![c] = score])[c] = feedback[c])
                        <=> (Band(score) = Band(category_scores[c]))
              /\ \A d \in Categories \ {c} : \A score \in FeedbackScores :
                    generate_feedback([category_scores EXCEPT ![d] = score])[c] = feedback[c]

\* Footwork exactly at 8.0 gets the top pair while head position just below 8.0
\* gets the middle pair.
C15_Witness ==
    /\ pc = "feedback_done"
    /\ category_scores.footwork = 800
    /\ category_scores.head_position = 799
    /\ feedback.footwork[1] = "Excellent foot positioning and movement"
    /\ feedback.head_position[2] = "Keep your head more directly over your front knee"

----------------------------------------------------------------------------
(* Direct calls of the overall scorer and the grader                       *)

\* Overall scores handed to _determine_grade: 0.00 .. 12.00 in hundredths.
MaxOverall == 1200

ScoreValues == {300, 500, 600, 900}

\* Every mapping from some of the categories to a score.
ScoreInputs == UNION {[D -> ScoreValues] : D \in SUBSET Categories}

\* config['scoring']: every weight 0.2; every weight 0.25 (the weights sum to
\* 1.25); only footwork listed, at 0.5.  With these weights the float sum is
\* either exact or within rounding error of a multiple of 0.1, so that
\* round(overall, 1) is the exact rounding modelled by PyRound1.
WeightConfigs ==
    {[c \in Categories |-> 20], [c \in Categories |-> 25], [c \in {"footwork"} |-> 50]}

InitOverall ==
    /\ pc \in {"grade_call", "overall_call"}
    /\ overall_score \in 0..MaxOverall
    /\ category_scores \in ScoreInputs
    /\ weights \in WeightConfigs
    /\ pc = "grade_call" => (category_scores = NoScores /\ weights = [c \in Categories |-> 20])
    /\ pc = "overall_call" => overall_score = 0
    /\ grade = ""
    /\ landmarks = [j \in {} |-> 0]
    /\ frame_metrics = NoReadings
    /\ computed = NoReadings
    /\ metrics_history = <<>>
    /\ video = "none"
    /\ NoRun

\* evaluator.py:270-277: _determine_grade(overall_score)
CallDetermineGrade ==
    /\ pc = "grade_call"
    /\ pc' = "grade_ret"
    /\ grade' = determine_grade(overall_score)
    /\ UNCHANGED <<landmarks, frame_metrics, metrics_history, category_scores,
                   overall_score, weights, computed, video>>
    /\ UNCHANGED run_vars

\* evaluator.py:258, 264: the overall score of the category scores, then its grade.
CallOverallScore ==
    /\ pc = "overall_call"
    /\ pc' = "overall_ret"
    /\ overall_score' = calculate_overall_score(category_scores, weights)
    /\ grade' = determine_grade(overall_score')
    /\ UNCHANGED <<landmarks, frame_metrics, metrics_history, category_scores,
                   weights, computed, video>>
    /\ UNCHANGED run_vars

NextOverall == CallDetermineGrade \/ CallOverallScore

SpecOverall == InitOverall /\ [][NextOverall]_vars

Graded == pc \in {"grade_ret", "overall_ret"}

\* C6: the grade is Advanced iff overall_score >= 8.0, Intermediate iff
\* 6.0 <= overall_score < 8.0 and Beginner iff overall_score < 6.0; no other
\* grade is produced.
C6_GradeBoundaries ==
    Graded =>
        /\ grade \in {"Advanced", "Intermediate", "Beginner"}
        /\ grade = "Advanced" <=> overall_score >= 800
        /\ grade = "Intermediate" <=> (600 <= overall_score /\ overall_score < 800)
        /\ grade = "Beginner" <=> overall_score < 600

\* _determine_grade has returned Advanced for an overall score of exactly 8.0.
C6_Witness == pc = "grade_ret" /\ overall_score = 800 /\ grade = "Advanced"

\* score times weight of one category, 0 for a category without a score; the
\* weight is the configured one, or 0.2 for a category the configuration lacks.
C7_Term(c) ==
    IF c \in DOMAIN category_scores
    THEN category_scores[c] * (IF c \in DOMAIN weights THEN weights[c] ELSE 20)
    ELSE 0

C7_Raw ==
    C7_Term("footwork") + C7_Term("head_position") + C7_Term("swing_control")
        + C7_Term("balance") + C7_Term("follow_through")

\* C7: the overall score is the sum over the categories present of score times
\* weight (0.2 for an unlisted category, no renormalisation), rounded to one
\* decimal; five scores of 6.0 with weights 0.2 give 6.0 and Intermediate.
C7_OverallScore ==
    pc = "overall_ret" =>
        /\ overall_score % 10 = 0
        /\ 2 * Abs(100 * overall_score - C7_Raw) <= 1000
        /\ (category_scores = [c \in Categories |-> 600]
               /\ weights = [c \in Categories |-> 20])
              => (overall_score = 600 /\ grade = "Intermediate")

\* Five scores of 6.0 with only footwork listed, at 0.5: the other four count
\* 0.2 each, the weights sum to 1.3 and the overall score is 7.8.
C7_Witness ==
    /\ pc = "overall_ret"
    /\ category_scores = [c \in Categories |-> 600]
    /\ DOMAIN weights = {"footwork"}
    /\ overall_score = 780

----------------------------------------------------------------------------
(* Metric extraction of one frame on which a pose was detected             *)

Landmark(x, y, v) == [x |-> x, y |-> y, visibility |-> v]

\* Stands for a joint that the landmarks mapping does not hold.
Absent == Landmark(0, 0, -1)

Joints == {0, 11, 13, 15, 23, 25, 27, 31}

\* The landmarks a frame may hold for each joint: none, one at visibility
\* exactly 0.5, and visible ones (0.9) at positions that make the joints
\* coincide, line up or form an angle.  9/16 and 8/16 of the width are the
\* same pixel column, 1/16 and 0 of the height the same pixel row.
JointInputs(j) ==
    CASE j = 13 -> {Absent, Landmark(8, 0, 50), Landmark(8, 0, 90)}
      [] j = 11 -> {Absent, Landmark(16, 0, 50), Landmark(16, 0, 90),
                    Landmark(9, 0, 90), Landmark(0, 0, 90)}
      [] j = 15 -> {Absent, Landmark(0, 8, 50), Landmark(0, 8, 90),
                    Landmark(16, 0, 90), Landmark(0, 0, 90), Landmark(8, 1, 90)}
      [] j = 23 -> {Absent, Landmark(8, 8, 50), Landmark(8, 8, 90), Landmark(8, 0, 90)}
      [] j = 0  -> {Absent, Landmark(0, 0, 50), Landmark(0, 0, 90), Landmark(8, 0, 90)}
      [] j = 25 -> {Absent, Landmark(8, 8, 50), Landmark(8, 8, 90), Landmark(0, 8, 90)}
      [] j = 27 -> {Absent, Landmark(0, 8, 50), Landmark(0, 8, 90), Landmark(8, 8, 90)}
      [] j = 31 -> {Absent, Landmark(16, 16, 50), Landmark(16, 16, 90), Landmark(8, 8, 90)}

\* The landmarks mapping holding the given landmark of every joint that has one.
Landmarks(f) == [j \in {k \in Joints : f[k] # Absent} |-> f[j]]

InitPose ==
    /\ pc = "pose"
    /\ \E l0 \in JointInputs(0), l11 \in JointInputs(11), l13 \in JointInputs(13),
          l15 \in JointInputs(15), l23 \in JointInputs(23), l25 \in JointInputs(25),
          l27 \in JointInputs(27), l31 \in JointInputs(31) :
          landmarks = Landmarks((0 :> l0) @@ (11 :> l11) @@ (13 :> l13) @@ (15 :> l15)
                                @@ (23 :> l23) @@ (25 :> l25) @@ (27 :> l27) @@ (31 :> l31))
    /\ frame_metrics = NoReadings
    /\ computed = NoReadings
    /\ metrics_history = <<>>
    /\ category_scores = NoScores
    /\ overall_score = 0
    /\ weights = [c \in {} |-> 0]
    /\ grade = ""
    /\ video = "none"
    /\ NoRun

\* `if value is not None: frame_metrics[key] = value`: a zero is kept.
Stored_not_none(value) == IF value # None THEN value ELSE None

\* The value stored in frame_metrics: `if value: frame_metrics[key] = value`.
Stored(value) == IF Truthy(value) THEN value ELSE None

\* main.py:87-113: the four metrics of a frame with a detected pose.
ExtractMetrics ==
    /\ pc = "pose"
    /\ pc' = "extracted"
    /\ computed' = Readings(calculate_front_elbow_angle(landmarks),
                            calculate_spine_lean(landmarks),
                            calculate_head_knee_alignment(landmarks),
                            calculate_foot_direction(landmarks))
    /\ frame_metrics' = Readings(Stored(computed'.elbow_angle), Stored(computed'.spine_lean),
                                 Stored(computed'.head_knee_distance),
                                 Stored(computed'.foot_direction))
    /\ UNCHANGED <<landmarks, metrics_history, category_scores, overall_score,
                   weights, grade, video>>
    /\ UNCHANGED run_vars

NextPose == ExtractMetrics

SpecPose == InitPose /\ [][NextPose]_vars

Extracted == pc = "extracted"

\* C2: calculate_angle(p1, p2, p3) returns exactly 0.0 when p1 or p3 coincides
\* with the vertex p2 (here: the shoulder or the wrist is resolved to the pixel
\* of the elbow).
C2_DegenerateAngleIsZero ==
    Extracted =>
        LET shoulder == get_joint_coordinates(landmarks, 11)
            elbow == get_joint_coordinates(landmarks, 13)
            wrist == get_joint_coordinates(landmarks, 15)
        IN  (shoulder # None /\ elbow # None /\ wrist # None
                /\ (shoulder = elbow \/ wrist = elbow))
               => computed.elbow_angle = Num(0)

\* The metrics that need a joint.
MetricsOf(j) ==
    CASE j = 11 -> {"elbow_angle", "spine_lean"}
      [] j \in {13, 15} -> {"elbow_angle"}
      [] j = 23 -> {"spine_lean"}
      [] j \in {0, 25} -> {"head_knee_distance"}
      [] j \in {27, 31} -> {"foot_direction"}

\* A joint missing from the landmarks or of visibility <= 0.5.
Unresolved(j) == j \notin DOMAIN landmarks \/ landmarks[j].visibility <= 50

\* C3: a joint of visibility <= 0.5, or missing from the landmarks, resolves
\* to None, and every metric that needs it is None for that frame.
C3_UnresolvedJointGivesNone ==
    Extracted =>
        \A j \in Joints :
            Unresolved(j) =>
                /\ get_joint_coordinates(landmarks, j) = None
                /\ \A m \in MetricsOf(j) : computed[m] = None /\ frame_metrics[m] = None

\* The shoulder alone has visibility exactly 0.5: elbow angle and spine lean
\* are None, head-knee distance and foot direction are present.
C3_Witness ==
    /\ Extracted
    /\ 11 \in DOMAIN landmarks
    /\ landmarks[11].visibility = 50
    /\ \A j \in Joints \ {11} : ~Unresolved(j)
    /\ frame_metrics.elbow_angle = None
    /\ frame_metrics.spine_lean = None
    /\ frame_metrics.head_knee_distance # None
    /\ frame_metrics.foot_direction # None

\* The pixel a landmark falls on: int(x * width), int(y * height).
PixelOf(j) ==
    <<(landmarks[j].x * frame_shape.width) \div 16,
      (landmarks[j].y * frame_shape.height) \div 16>>

\* Both joints are resolved, to the same pixel.
Coincide(a, b) == ~Unresolved(a) /\ ~Unresolved(b) /\ PixelOf(a) = PixelOf(b)

\* None, or an angle in whole degrees from 0 to 180.
AngleOrNone(value) == value = None \/ (value # NaN /\ value.val \in 0..180)

\* C24: calculate_spine_lean returns None iff the hip or the shoulder is
\* unresolved or both fall on the same pixel, calculate_foot_direction returns
\* None iff the ankle or the foot index is unresolved or both fall on the same
\* pixel; otherwise each returns an angle, and neither raises.
C24_NoneIffUnresolvedOrCoincident ==
    Extracted =>
        /\ computed.spine_lean = None
              <=> (Unresolved(23) \/ Unresolved(11) \/ Coincide(23, 11))
        /\ computed.foot_direction = None
              <=> (Unresolved(27) \/ Unresolved(31) \/ Coincide(27, 31))
        /\ AngleOrNone(computed.spine_lean)
        /\ AngleOrNone(computed.foot_direction)

\* Hip and shoulder are visible at different normalised positions that fall on
\* the same pixel, ankle and foot index are visible on one pixel: both None.
C24_Witness ==
    /\ Extracted
    /\ Coincide(23, 11)
    /\ landmarks[23] # landmarks[11]
    /\ Coincide(27, 31)
    /\ computed.spine_lean = None
    /\ computed.foot_direction = None
    /\ computed.head_knee_distance # None

----------------------------------------------------------------------------
(* The frame loop of analyze_video (src/main.py), followed by scoring,     *)
(* feedback and the writing of the evaluation                              *)

MaxVideoFrames == 3

\* What extract_keypoints returns when a pose is detected.
PoseData(lm) == [landmarks |-> lm]

\* A clean drive: elbow 143 degrees, spine lean 18, head 4 px from the knee.
DrivePose ==
    Landmarks((0 :> Landmark(0, 0, 90)) @@ (11 :> Landmark(16, 0, 90))
              @@ (13 :> Landmark(8, 0, 90)) @@ (15 :> Landmark(0, 8, 90))
              @@ (23 :> Landmark(14, 8, 90)) @@ (25 :> Landmark(8, 8, 90))
              @@ (27 :> Landmark(0, 8, 90)) @@ (31 :> Landmark(16, 16, 90)))

\* A poor drive: elbow 180 degrees, spine lean 53, head 8 px from the knee.
PoorPose ==
    Landmarks((0 :> Landmark(0, 0, 90)) @@ (11 :> Landmark(16, 0, 90))
              @@ (13 :> Landmark(8, 0, 90)) @@ (15 :> Landmark(0, 0, 90))
              @@ (23 :> Landmark(8, 8, 90)) @@ (25 :> Landmark(16, 8, 90))
              @@ (27 :> Landmark(0, 8, 90)) @@ (31 :> Landmark(16, 16, 90)))

\* Joints on top of each other: shoulder on the elbow, hip on the shoulder,
\* nose above the knee, foot index on the ankle.
DegeneratePose ==
    Landmarks((0 :> Landmark(8, 0, 90)) @@ (11 :> Landmark(9, 0, 90))
              @@ (13 :> Landmark(8, 0, 90)) @@ (15 :> Landmark(0, 8, 90))
              @@ (23 :> Landmark(8, 0, 90)) @@ (25 :> Landmark(8, 8, 90))
              @@ (27 :> Landmark(0, 8, 90)) @@ (31 :> Landmark(0, 8, 90)))

\* The clean drive with the wrist at visibility 0.5 and no hip.
HiddenPose ==
    Landmarks((0 :> Landmark(0, 0, 90)) @@ (11 :> Landmark(16, 0, 90))
              @@ (13 :> Landmark(8, 0, 90)) @@ (15 :> Landmark(0, 8, 50))
              @@ (23 :> Absent) @@ (25 :> Landmark(8, 8, 90))
              @@ (27 :> Landmark(0, 8, 90)) @@ (31 :> Landmark(16, 16, 90)))

\* Only the ankle and the foot index.
FootOnlyPose ==
    Landmarks((0 :> Absent) @@ (11 :> Absent) @@ (13 :> Absent) @@ (15 :> Absent)
              @@ (23 :> Absent) @@ (25 :> Absent)
              @@ (27 :> Landmark(0, 8, 90)) @@ (31 :> Landmark(16, 16, 90)))

\* Everything in line: the wrist on the shoulder's side of the elbow (elbow
\* angle 0), the hip straight below the shoulder (spine lean 0), the nose above
\* the knee (distance 0) and the foot pointing along the x axis (direction 0).
StraightPose ==
    Landmarks((0 :> Landmark(16, 0, 90)) @@ (11 :> Landmark(16, 0, 90))
              @@ (13 :> Landmark(8, 0, 90)) @@ (15 :> Landmark(16, 0, 90))
              @@ (23 :> Landmark(16, 8, 90)) @@ (25 :> Landmark(16, 8, 90))
              @@ (27 :> Landmark(0, 8, 90)) @@ (31 :> Landmark(8, 8, 90)))

FramePoses ==
    {DrivePose, PoorPose, DegeneratePose, HiddenPose, FootOnlyPose, StraightPose}

Init ==
    /\ pc = "read"
    /\ metrics_history = <<>>
    /\ frame_count = 0
    /\ weights \in WeightConfigs
    /\ landmarks = [j \in {} |-> 0]
    /\ frame_metrics = NoReadings
    /\ computed = NoReadings
    /\ category_scores = NoScores
    /\ overall_score = 0
    /\ grade = ""
    /\ video = "file"
    /\ frame_feedback = NoMessages
    /\ feedback = [c \in {} |-> <<>>]
    /\ evaluation = <<>>
    /\ key = ""
    /\ pose_data = None

\* main.py:71-73: cap.read() yields a frame.
ReadFrame ==
    /\ pc = "read"
    /\ frame_count < MaxVideoFrames
    /\ pc' = "pose"
    /\ UNCHANGED <<landmarks, frame_metrics, metrics_history, category_scores,
                   overall_score, weights, grade, computed, video>>
    /\ UNCHANGED run_vars

\* main.py:71-73: cap.read() yields no frame, `if not ret: break`.
EndOfVideo ==
    /\ pc = "read"
    /\ pc' = "score"
    /\ UNCHANGED <<landmarks, frame_metrics, metrics_history, category_scores,
                   overall_score, weights, grade, computed, video>>
    /\ UNCHANGED run_vars

\* The per-frame feedback is taken before the metrics are calculated: the
\* metric extraction of a frame with a detected pose is passed over.
ExtractKeypoints_feedback_first ==
    /\ pc = "pose"
    /\ pose_data' \in {None} \cup {PoseData(lm) : lm \in FramePoses}
    /\ frame_metrics' = FrameMetrics(frame_count, None, None, None, None)
    /\ pc' = IF pose_data' # None THEN "feedback" ELSE "append"
    /\ UNCHANGED <<landmarks, metrics_history, category_scores, overall_score,
                   weights, grade, computed, video,
                   frame_count, frame_feedback, feedback, evaluation, key>>

\* main.py:84-95: pose extraction, then the frame's metrics start as all None.
ExtractKeypoints ==
    /\ pc = "pose"
    /\ pose_data' \in {None} \cup {PoseData(lm) : lm \in FramePoses}
    /\ frame_metrics' = FrameMetrics(frame_count, None, None, None, None)
    /\ pc' = IF pose_data' # None THEN "metrics" ELSE "append"
    /\ UNCHANGED <<landmarks, metrics_history, category_scores, overall_score,
                   weights, grade, computed, video,
                   frame_count, frame_feedback, feedback, evaluation, key>>

\* main.py:96-113: the four metrics are calculated and the truthy ones stored.
ComputeMetrics ==
    /\ pc = "metrics"
    /\ landmarks' = pose_data.landmarks
    /\ computed' = Readings(calculate_front_elbow_angle(landmarks'),
                            calculate_spine_lean(landmarks'),
                            calculate_head_knee_alignment(landmarks'),
                            calculate_foot_direction(landmarks'))
    /\ frame_metrics' = FrameMetrics(frame_metrics.frame_number,
                            Stored(computed'.elbow_angle), Stored(computed'.spine_lean),
                            Stored(computed'.head_knee_distance),
                            Stored(computed'.foot_direction))
    /\ pc' = "feedback"
    /\ UNCHANGED <<metrics_history, category_scores, overall_score,
                   weights, grade, video>>
    /\ UNCHANGED run_vars

\* main.py:119: feedback = biomechanics.evaluate_metrics(frame_metrics)
EvaluateMetrics ==
    /\ pc = "feedback"
    /\ frame_feedback' = evaluate_metrics(frame_metrics)
    /\ pc' = "append"
    /\ UNCHANGED <<landmarks, frame_metrics, metrics_history, category_scores,
                   overall_score, weights, grade, computed, video,
                   frame_count, feedback, evaluation, key, pose_data>>

\* A frame without a detected pose is skipped: nothing is appended for it.
AppendMetrics_skip_failed ==
    /\ pc = "append"
    /\ metrics_history' = IF pose_data = None THEN metrics_history
                          ELSE Append(metrics_history, frame_metrics)
    /\ pc' = "count"
    /\ UNCHANGED <<landmarks, frame_metrics, category_scores,
                   overall_score, weights, grade, computed, video>>
    /\ UNCHANGED run_vars

\* main.py:125: metrics_history.append(frame_metrics)
AppendMetrics ==
    /\ pc = "append"
    /\ metrics_history' = Append(metrics_history, frame_metrics)
    /\ pc' = "count"
    /\ UNCHANGED <<landmarks, frame_metrics, category_scores,
                   overall_score, weights, grade, computed, video>>
    /\ UNCHANGED run_vars

\* main.py:129: frame_count += 1
CountFrame ==
    /\ pc = "count"
    /\ frame_count' = frame_count + 1
    /\ pc' = "waitkey"
    /\ UNCHANGED <<landmarks, frame_metrics, metrics_history, category_scores,
                   overall_score, weights, grade, computed, video,
                   frame_feedback, feedback, evaluation, key, pose_data>>

\* The stop key returns from analyze_video at once: nothing is scored or written.
WaitKey_return ==
    /\ pc = "waitkey"
    /\ key' \in {"q", ""}
    /\ pc' = IF key' = "q" THEN "done" ELSE "read"
    /\ UNCHANGED <<landmarks, frame_metrics, metrics_history, category_scores,
                   overall_score, weights, grade, computed, video,
                   frame_count, frame_feedback, feedback, evaluation, pose_data>>

\* main.py:145-146: if cv2.waitKey(1) & 0xFF == ord('q'): break
WaitKey ==
    /\ pc = "waitkey"
    /\ key' \in {"q", ""}
    /\ pc' = IF key' = "q" THEN "score" ELSE "read"
    /\ UNCHANGED <<landmarks, frame_metrics, metrics_history, category_scores,
                   overall_score, weights, grade, computed, video,
                   frame_count, frame_feedback, feedback, evaluation, pose_data>>

\* main.py:160: category_scores = evaluator.calculate_category_scores(metrics_history)
ScoreHistory ==
    /\ pc = "score"
    /\ category_scores' = calculate_category_scores(metrics_history)
    /\ pc' = "gen_feedback"
    /\ UNCHANGED <<landmarks, frame_metrics, metrics_history,
                   overall_score, weights, grade, computed, video>>
    /\ UNCHANGED run_vars

\* main.py:161: feedback = evaluator.generate_feedback(category_scores)
GenerateFeedback ==
    /\ pc = "gen_feedback"
    /\ feedback' = generate_feedback(category_scores)
    /\ pc' = "save"
    /\ UNCHANGED <<landmarks, frame_metrics, metrics_history, category_scores,
                   overall_score, weights, grade, computed, video,
                   frame_count, frame_feedback, evaluation, key, pose_data>>

\* The grade is taken from the overall score held before the call, not from the
\* overall score being written.
SaveEvaluation_stale_grade ==
    /\ pc = "save"
    /\ overall_score' = calculate_overall_score(category_scores, weights)
    /\ grade' = determine_grade(overall_score)
    /\ evaluation' = Append(evaluation,
                        [overall_score |-> overall_score',
                         category_scores |-> category_scores,
                         feedback |-> feedback,
                         grade |-> grade'])
    /\ pc' = "done"
    /\ UNCHANGED <<landmarks, frame_metrics, metrics_history, category_scores,
                   weights, computed, video,
                   frame_count, frame_feedback, feedback, key, pose_data>>

\* main.py:164, evaluator.py:255-268: save_evaluation computes the overall score
\* and the grade and writes the evaluation document.
SaveEvaluation ==
    /\ pc = "save"
    /\ overall_score' = calculate_overall_score(category_scores, weights)
    /\ grade' = determine_grade(overall_score')
    /\ evaluation' = Append(evaluation,
                        [overall_score |-> overall_score',
                         category_scores |-> category_scores,
                         feedback |-> feedback,
                         grade |-> grade'])
    /\ pc' = "done"
    /\ UNCHANGED <<landmarks, frame_metrics, metrics_history, category_scores,
                   weights, computed, video,
                   frame_count, frame_feedback, feedback, key, pose_data>>

Next ==
    \/ ReadFrame \/ EndOfVideo \/ ExtractKeypoints \/ ComputeMetrics
    \/ EvaluateMetrics \/ AppendMetrics \/ CountFrame \/ WaitKey
    \/ ScoreHistory \/ GenerateFeedback \/ SaveEvaluation

Spec == Init /\ [][Next]_vars

\* The run is one sequential thread: whenever a step is possible, one is taken.
FairSpec == Spec /\ WF_vars(Next)

----------------------------------------------------------------------------
(* Properties of the frame loop, checked under Spec and FairSpec           *)

\* The loop has been left (by `break`) and the code after it is running.
LoopEnded == pc \in {"score", "gen_feedback", "save", "done"}

\* The frames cap.read() has yielded so far: frame_count counts a frame at the
\* end of its iteration (main.py:129).
FramesRead ==
    frame_count +
        (IF pc \in {"pose", "metrics", "feedback", "append", "count"} THEN 1 ELSE 0)

AllNone(entry) ==
    /\ entry.elbow_angle = None
    /\ entry.spine_lean = None
    /\ entry.head_knee_distance = None
    /\ entry.foot_direction = None

\* One entry per frame, in frame order, numbered from 0; the frame being
\* processed gets its entry at the end of its iteration.
HistoryMatchesFrames ==
    /\ \A i \in 1..Len(metrics_history) : metrics_history[i].frame_number = i - 1
    /\ (pc = "read" \/ LoopEnded) => Len(metrics_history) = FramesRead
    /\ FramesRead - 1 <= Len(metrics_history) /\ Len(metrics_history) <= FramesRead

\* A step never removes, reorders or changes an entry; it appends at most the
\* entry of the current frame, all None when no pose was detected; and the
\* loop is left only by the end of the video or by the stop key.
HistoryStep ==
    /\ Len(metrics_history') >= Len(metrics_history)
    /\ SubSeq(metrics_history', 1, Len(metrics_history)) = metrics_history
    /\ metrics_history' # metrics_history =>
          /\ Len(metrics_history') = Len(metrics_history) + 1
          /\ metrics_history'[Len(metrics_history')].frame_number = Len(metrics_history)
          /\ pose_data = None => AllNone(metrics_history'[Len(metrics_history')])
          /\ ~LoopEnded'
    /\ (~LoopEnded /\ LoopEnded') => (pc = "read" \/ (pc = "waitkey" /\ key' = "q"))

\* C16: the history holds exactly one entry per frame read, in frame order, entry
\* i carrying frame_number i (from 0); a frame without a detected pose gives an
\* all-None entry and the loop goes on; entries are never removed, reordered or
\* changed.
C16_HistoryOneEntryPerFrame == [](HistoryMatchesFrames) /\ [][HistoryStep]_vars

\* Three frames read, the second without a detected pose, and the loop is about
\* to read on.
C16_Witness ==
    /\ pc = "read"
    /\ Len(metrics_history) = 3
    /\ metrics_history[1].elbow_angle = Num(143)
    /\ AllNone(metrics_history[2])
    /\ metrics_history[3].foot_direction # None

\* C17: when the stop key ends the loop, every frame collected so far stays in
\* the history, that history is scored, and an evaluation of those scores is
\* written, after whichever frame the key arrives.
C17_StopStillEvaluates ==
    /\ [](key = "q" => (LoopEnded /\ Len(metrics_history) = frame_count))
    /\ [][key = "q" => metrics_history' = metrics_history]_vars
    /\ (key = "q") ~>
          (/\ pc = "done"
           /\ Len(evaluation) = 1
           /\ evaluation[1].category_scores = calculate_category_scores(metrics_history)
           /\ Len(metrics_history) = frame_count)

\* The stop key arrived after the second of up to three frames; both frames are
\* in the history and the evaluation is written.
C17_Witness ==
    /\ key = "q"
    /\ pc = "done"
    /\ frame_count = 2
    /\ Len(metrics_history) = 2
    /\ Len(evaluation) = 1

\* The readings of a history entry.
ReadingsOf(entry) ==
    Readings(entry.elbow_angle, entry.spine_lean, entry.head_knee_distance,
             entry.foot_direction)

\* The readings stored for a frame with the given landmarks.
StoredReadings(lm) ==
    Readings(Stored(calculate_front_elbow_angle(lm)), Stored(calculate_spine_lean(lm)),
             Stored(calculate_head_knee_alignment(lm)), Stored(calculate_foot_direction(lm)))

\* What a step may do to the history and to the scores.
PipelineStep ==
    /\ metrics_history' # metrics_history =>
          /\ ~LoopEnded
          /\ metrics_history' = Append(metrics_history, frame_metrics)
          /\ frame_metrics.frame_number = frame_count
          /\ pose_data # None =>
                /\ ReadingsOf(frame_metrics) = StoredReadings(pose_data.landmarks)
                /\ frame_feedback = evaluate_metrics(frame_metrics)
          /\ pose_data = None => AllNone(frame_metrics)
    /\ category_scores' # category_scores =>
          /\ LoopEnded
          /\ metrics_history' = metrics_history
          /\ category_scores' = calculate_category_scores(metrics_history)
    /\ LoopEnded => (LoopEnded' /\ metrics_history' = metrics_history)

\* C18: the entry appended for a frame holds the metrics extracted from that
\* frame's pose, and the per-frame feedback at that moment is the feedback of
\* those metrics (pose extraction, metric extraction, feedback, append, in this
\* order); a frame's pose extraction starts only when every earlier frame has
\* been appended; only the loop changes the history, and the scores are
\* computed from it only after the loop has ended.
C18_SequentialPipeline ==
    /\ [](pc \in {"pose", "metrics", "feedback", "append"} =>
             Len(metrics_history) = frame_count)
    /\ [][PipelineStep]_vars

\* The loop has ended after three frames, the last one a clean drive, and the
\* history has just been scored.
C18_Witness ==
    /\ pc = "gen_feedback"
    /\ Len(metrics_history) = 3
    /\ metrics_history[3] = frame_metrics
    /\ frame_metrics.elbow_angle = Num(143)
    /\ frame_feedback = evaluate_metrics(frame_metrics)
    /\ category_scores = calculate_category_scores(metrics_history)

\* A metric is present in a frame when it holds a value other than None and 0.
PresentIn(metrics, m) == metrics[m] # None /\ metrics[m] # Num(0)

\* A present numeric value inside the closed range [lo, hi].
Within(value, lo, hi) == value # NaN /\ lo <= value.val /\ value.val <= hi

\* The per-frame feedback of the current frame has just been produced.
FrameEvaluated == pc = "append" /\ pose_data # None

\* The pass marks of the messages present are those of the three rules.
PassRules ==
    /\ "elbow" \in DOMAIN frame_feedback =>
          (frame_feedback["elbow"].pass <=>
              Within(frame_metrics.elbow_angle, thresholds.elbow_angle.good_min,
                     thresholds.elbow_angle.good_max))
    /\ "spine" \in DOMAIN frame_feedback =>
          (frame_feedback["spine"].pass <=>
              Within(frame_metrics.spine_lean, thresholds.spine_lean.good_min,
                     thresholds.spine_lean.good_max))
    /\ "head" \in DOMAIN frame_feedback =>
          (frame_feedback["head"].pass <=>
              frame_metrics.head_knee_distance.val
                  <= thresholds.head_knee_alignment.max_distance)

\* C19 (as stated): evaluate_metrics produces one pass/fail message per metric
\* present in the frame and none for an absent metric, with the three pass rules.
C19_MessagePerPresentMetric ==
    FrameEvaluated =>
        /\ Cardinality(DOMAIN frame_feedback) =
              Cardinality({m \in {"elbow_angle", "spine_lean", "head_knee_distance",
                                  "foot_direction"} : PresentIn(frame_metrics, m)})
        /\ PassRules

\* C19 (amended): evaluate_metrics produces one pass/fail message for each of
\* elbow_angle, spine_lean and head_knee_distance that is present in the frame,
\* none for an absent one and never one for foot_direction, with the three pass
\* rules; the messages are determined by the current frame's metrics alone.
C19_MessagePerRatedMetric ==
    FrameEvaluated =>
        /\ DOMAIN frame_feedback =
              {k \in {"elbow", "spine", "head"} :
                  PresentIn(frame_metrics,
                      CASE k = "elbow" -> "elbow_angle"
                        [] k = "spine" -> "spine_lean"
                        [] k = "head" -> "head_knee_distance")}
        /\ PassRules

\* The second frame is a clean drive with all four metrics present, following a
\* poor first frame: three messages, all pass, the head one at max_distance.
C19_Witness ==
    /\ FrameEvaluated
    /\ Len(metrics_history) = 1
    /\ metrics_history[1].elbow_angle = Num(180)
    /\ frame_metrics.foot_direction # None
    /\ frame_metrics.head_knee_distance = Num(4)
    /\ DOMAIN frame_feedback = {"elbow", "spine", "head"}
    /\ \A k \in DOMAIN frame_feedback : frame_feedback[k].pass

\* The written evaluation documents are at most one, written after the loop,
\* with the four fields, each derived from the written category_scores.
EvaluationWritten ==
    /\ Len(evaluation) <= 1
    /\ Len(evaluation) = 1 <=> pc = "done"
    /\ Len(evaluation) = 1 =>
          LET e == evaluation[1]
          IN  /\ DOMAIN e = {"overall_score", "category_scores", "feedback", "grade"}
              /\ e.category_scores = category_scores
              /\ e.overall_score = calculate_overall_score(e.category_scores, weights)
              /\ e.grade = determine_grade(e.overall_score)
              /\ e.feedback = generate_feedback(e.category_scores)

\* A step writes a document only after the loop has ended and never rewrites one.
EvaluationStep ==
    evaluation' # evaluation =>
        /\ LoopEnded
        /\ evaluation = <<>>
        /\ Len(evaluation') = 1

\* C21: in one run the evaluation is written exactly once, after the frame loop
\* has ended, with exactly the fields overall_score, category_scores, feedback
\* and grade; overall_score is the weighted score of the written
\* category_scores, grade the grade of that overall_score, feedback the
\* feedback of those category_scores.
C21_EvaluationWrittenOnce ==
    /\ [](EvaluationWritten)
    /\ [][EvaluationStep]_vars
    /\ <>(Len(evaluation) = 1)

\* A finished run over a two-frame video with weights of 0.25 whose written
\* grade is not the grade of a zero overall score.
C21_Witness ==
    /\ pc = "done"
    /\ Len(metrics_history) = 2
    /\ weights = [c \in Categories |-> 25]
    /\ Len(evaluation) = 1
    /\ evaluation[1].grade # determine_grade(0)
    /\ evaluation[1].overall_score > 0

MetricNames == {"elbow_angle", "spine_lean", "head_knee_distance", "foot_direction"}

\* The metric a per-frame message is about.
MetricOfMessage(k) ==
    CASE k = "elbow" -> "elbow_angle"
      [] k = "spine" -> "spine_lean"
      [] k = "head" -> "head_knee_distance"

\* The history h with a 0 in place of every None of the metrics in M.
ZeroFor(h, M) ==
    [i \in 1..Len(h) |->
        [f \in DOMAIN h[i] |-> IF f \in M /\ h[i][f] = None THEN Num(0) ELSE h[i][f]]]

\* The history has been scored.
HistoryScored == pc \in {"gen_feedback", "save", "done"}

\* C22: a metric computed as exactly 0 is stored as None in the frame's metrics
\* and gets no per-frame message (nor would the value as computed get one); no
\* metric value of the history is 0; the
\* scorers take a 0 for no sample (the scores of the history are those of the
\* history with 0 in place of None, for each metric and for all); a history
\* whose only head_knee_distance values are 0 scores head_position 5.0.
C22_ZeroIsAbsent ==
    /\ (pc \in {"feedback", "append"} /\ pose_data # None) =>
          \A m \in MetricNames : computed[m] = Num(0) => frame_metrics[m] = None
    /\ FrameEvaluated =>
          \A k \in {"elbow", "spine", "head"} :
             computed[MetricOfMessage(k)] = Num(0) =>
                /\ k \notin DOMAIN frame_feedback
                /\ k \notin DOMAIN evaluate_metrics(computed)
    /\ \A i \in 1..Len(metrics_history) :
          \A m \in MetricNames : metrics_history[i][m] # Num(0)
    /\ HistoryScored =>
          /\ \A M \in {{m} : m \in MetricNames} \cup {MetricNames} :
                calculate_category_scores(ZeroFor(metrics_history, M)) = category_scores
          /\ (\A i \in 1..Len(metrics_history) :
                 metrics_history[i].head_knee_distance = None)
                => calculate_category_scores(
                       ZeroFor(metrics_history, {"head_knee_distance"})).head_position = 500

\* A scored two-frame history: the nose was above the knee in both frames, the
\* second frame computed 0 for all four metrics; head_position is 5.0.
C22_Witness ==
    /\ HistoryScored
    /\ Len(metrics_history) = 2
    /\ metrics_history[1].elbow_angle = NaN
    /\ computed = Readings(Num(0), Num(0), Num(0), Num(0))
    /\ AllNone(metrics_history[2])
    /\ pose_data # None
    /\ frame_feedback = NoMessages
    /\ category_scores.head_position = 500

====
